---- MODULE Spec2Model ----
(***************************************************************************)
(* SmartCity Traffic Flow Optimizer: the pipeline scripts as state         *)
(* machines over the files they exchange.                                  *)
(*                                                                         *)
(*   extract_segments.py    graph edges  -> warsaw_road_segments.csv       *)
(*   simulate_traffic.py    segments     -> simulated_traffic.csv          *)
(*   train_predict_model.py traffic      -> model.pkl + encoder.pkl        *)
(*   app.py                 interactive prediction service (Streamlit)     *)
(*   visualize_traffic.py   static report traffic_heatmap.html             *)
(*                                                                         *)
(* Text is a sequence of one-character strings, so that formatting and     *)
(* parsing are computed.  Speeds are integers: a draw is in hundredths of  *)
(* a km/h, a rounded speed_kph in tenths of a km/h.                        *)
(***************************************************************************)
EXTENDS Integers, Sequences, FiniteSets, TLC

\* ------------------------------------------------------------------ bounds
\* A graph holds at most MaxEdges of the edges of EdgePool.
MaxEdges == 2
\* The random stream of a simulation run repeats after StreamLen draws.
StreamLen == 2
\* The training script is run at most MaxRuns times.
MaxRuns == 2

\* ------------------------------------------------------- program constants
NumHours == 24
SPEED_FLOOR == 5

\* -------------------------------------------------------------------- text
Digits == <<"0", "1", "2", "3", "4", "5", "6", "7", "8", "9">>

DigitChar(d) == Digits[d + 1]

DigitVal(c) == CHOOSE d \in 0..9 : Digits[d + 1] = c

IsDigit(c) == \E d \in 0..9 : Digits[d + 1] = c

RECURSIVE Str(_)
\* Python str(n) of a non-negative integer.
Str(n) == IF n < 10 THEN <<DigitChar(n)>> ELSE Str(n \div 10) \o <<DigitChar(n % 10)>>

RECURSIVE ParseDigits(_, _)
ParseDigits(s, acc) ==
    IF s = <<>> THEN acc ELSE ParseDigits(Tail(s), 10 * acc + DigitVal(Head(s)))

\* Python int(s) of a string of decimal digits.
ParseInt(s) == ParseDigits(s, 0)

RECURSIVE UpTo(_, _)
\* s.split(c)[0]: the text before the first c.
UpTo(s, c) == IF s = <<>> \/ Head(s) = c THEN <<>> ELSE <<Head(s)>> \o UpTo(Tail(s), c)

\* f"{h:02d}:00"
FormatHour(h) == (IF h < 10 THEN <<"0">> ELSE <<>>) \o Str(h) \o <<":", "0", "0">>

\* Mutant of hours: a 12-hour clock, each hour text twice.
hours_TwelveHourClock == [i \in 1..NumHours |-> FormatHour((i - 1) % 12)]

\* hours = [f"{h:02d}:00" for h in range(24)]
hours == [i \in 1..NumHours |-> FormatHour(i - 1)]

\* int(hour.split(":")[0])
HourInt(hour) == ParseInt(UpTo(hour, ":"))

\* The characters of the texts compared, in code-point order.
Alphabet == <<" ", "(", ")", ",", "0", "1", "2", "3", "4", "5", "6", "7", "8", "9", "M", "S", "_">>

Ord(c) == CHOOSE i \in 1..Len(Alphabet) : Alphabet[i] = c

RECURSIVE TextLess(_, _)
\* a < b for two texts.
TextLess(a, b) ==
    IF b = <<>> THEN FALSE
    ELSE IF a = <<>> THEN TRUE
    ELSE IF Head(a) = Head(b) THEN TextLess(Tail(a), Tail(b))
    ELSE Ord(Head(a)) < Ord(Head(b))

RECURSIVE SortedSet(_)
\* np.unique: the distinct texts of S in ascending order.
SortedSet(S) ==
    IF S = {} THEN <<>>
    ELSE LET m == CHOOSE x \in S : \A y \in S \ {x} : TextLess(x, y)
         IN <<m>> \o SortedSet(S \ {m})

\* A missing cell of a table (pandas NaN); no text holds this element.
NaN == <<"NaN">>

notna(x) == x /= NaN

\* -------------------------------------------------------------- geometries
\* WKT text, tokenised: the tag and the coordinate lists that follow it, each
\* list lon lat lon lat ...  "LINESTRING EMPTY" has no list.
Wkt(tag, parts) == [tag |-> tag, parts |-> parts]

\* A missing geometry cell.
WktNaN == Wkt("NaN", <<>>)

\* shapely's geometry.wkt of a LineString, as to_csv writes it.
ToWkt(g) == Wkt("LINESTRING", <<g>>)

\* A geometry object.
Geometry(type, parts) == [geom_type |-> type, parts |-> parts]

\* What wkt.loads gives when it raises.
WktError == Geometry("error", <<>>)

ValidLine(part) == Len(part) >= 4 /\ Len(part) % 2 = 0

\* shapely.wkt.loads
wkt_loads(w) ==
    IF w.tag = "LINESTRING" /\ w.parts = <<>> THEN Geometry("LineString", <<>>)
    ELSE IF w.tag = "LINESTRING" /\ Len(w.parts) = 1 /\ ValidLine(w.parts[1])
        THEN Geometry("LineString", w.parts)
    ELSE IF w.tag = "MULTILINESTRING" /\ \A i \in 1..Len(w.parts) : ValidLine(w.parts[i])
        THEN Geometry("MultiLineString", w.parts)
    ELSE IF w.tag = "POINT" /\ Len(w.parts) = 1 /\ Len(w.parts[1]) = 2
        THEN Geometry("Point", w.parts)
    ELSE WktError

is_empty(g) == g.parts = <<>>

\* [(lat, lon) for lon, lat in coords]
LatLon(part) == [i \in 1..(Len(part) \div 2) |-> <<part[2 * i], part[2 * i - 1]>>]

\* ---------------------------------------------------------------- the graph
\* Edges of the drivable road graph: (u, v, key) is the MultiDiGraph's edge
\* index; two edges between the same endpoints differ in key only.
EdgePool == <<
    [u |-> 1, v |-> 2, key |-> 0, name |-> <<"M">>, geometry |-> <<21, 52, 22, 52>>, length |-> 70],
    [u |-> 1, v |-> 2, key |-> 1, name |-> <<"S">>, geometry |-> <<21, 52, 21, 53, 22, 52>>, length |-> 180],
    [u |-> 2, v |-> 1, key |-> 0, name |-> <<"M">>, geometry |-> <<22, 52, 21, 52>>, length |-> 70],
    [u |-> 2, v |-> 13, key |-> 0, name |-> NaN, geometry |-> <<22, 52, 22, 53>>, length |-> 111]
>>

\* The graphs G: non-empty sets of pool edges.
Graphs == {g \in SUBSET (1..Len(EdgePool)) : g /= {} /\ Cardinality(g) <= MaxEdges}

RECURSIVE EdgesFrom(_, _)
EdgesFrom(g, i) ==
    IF i > Len(EdgePool) THEN <<>>
    ELSE (IF i \in g THEN <<EdgePool[i]>> ELSE <<>>) \o EdgesFrom(g, i + 1)

\* ox.graph_to_gdfs(G): the edges GeoDataFrame, one row per edge, indexed by
\* (u, v, key).
gdf_edges(g) == EdgesFrom(g, 1)

\* ------------------------------------------------------- extract_segments.py
\* str((u, v, key)): the text to_csv writes for a tuple-valued cell.
TupleStr(u, v, key) ==
    <<"(">> \o Str(u) \o <<",", " ">> \o Str(v) \o <<",", " ">> \o Str(key) \o <<")">>

\* segments_df["segment_id"] = segments_df.index
SegmentIdOfEdge(e) == TupleStr(e.u, e.v, e.key)

\* The columns of warsaw_road_segments.csv (to_csv(index=False): the index
\* columns u, v, key are not written).
SegmentColumns ==
    {"geometry", "name", "length", "start_lat", "start_lon", "end_lat", "end_lon", "segment_id"}

\* One row of warsaw_road_segments.csv.
SegmentRow(e) ==
    [geometry   |-> ToWkt(e.geometry),
     name       |-> e.name,
     length     |-> e.length,
     start_lat  |-> e.geometry[2],
     start_lon  |-> e.geometry[1],
     end_lat    |-> e.geometry[Len(e.geometry)],
     end_lon    |-> e.geometry[Len(e.geometry) - 1],
     segment_id |-> SegmentIdOfEdge(e)]

\* A table: its column names and its rows.
Table(columns, rows) == [columns |-> columns, rows |-> rows]

\* The table extract_segments.py saves for graph g.
ExtractSegments(g) ==
    Table(SegmentColumns, [i \in 1..Len(gdf_edges(g)) |-> SegmentRow(gdf_edges(g)[i])])

SegmentTables == {ExtractSegments(g) : g \in Graphs}

\* ------------------------------------------------------------------- files
\* A file is <<>> when absent and <<content>> when present.
Absent == <<>>

File(content) == <<content>>

exists(f) == f /= Absent

Content(f) == f[1]

\* ------------------------------------------------------------------- state
VARIABLES
    fs,            \* the files: segments, traffic, model, encoder, html
    sim_pc,        \* simulate_traffic.py: "idle", "start", "loop", "done", "crashed"
    segments_df,   \* simulate_traffic.py: the segment table it loaded
    sim_idx,       \* position of the outer loop (1-based row of segments_df)
    sim_hour,      \* position of the inner loop (1-based index into hours)
    traffic_data,  \* the rows appended so far
    rng,           \* the random stream: standard normal deviates, in hundredths
    rng_pos,       \* draws taken from the stream
    normal_call,   \* the arguments of the last np.random.normal call
    console,       \* what the batch scripts printed
    train_pc,      \* train_predict_model.py: "idle", "start", "loaded", "fitted",
                   \*   "model_saved", "done", "crashed", "stopped"
    train_run,     \* number of training runs started
    train_df,      \* the traffic table the run loaded
    train_mem,     \* the fitted model and encoder the run holds in memory
    app_up,        \* app.py: the Streamlit process is running
    cache_resource,\* st.cache_resource entry of load_model_and_encoder
    cache_data,    \* st.cache_data entry of load_segment_data
    load_calls,    \* how often each load function's body ran in this process
    session_state, \* st.session_state
    ui,            \* what the last script run rendered
    rep_pc,        \* visualize_traffic.py: "idle", "start", ..., "done", "halted", "crashed"
    roads_df,      \* visualize_traffic.py: the segment table
    traffic_hour_df, \* the traffic rows of TARGET_HOUR
    merged_gdf,    \* the merge of both
    to_plot,       \* merged_gdf_to_plot: <<>> while unassigned, else <<rows>>
    plot_idx,      \* position of the plotting loop
    folium_map,    \* the PolyLines added to the map
    graph_file,    \* warsaw_graph.graphml
    image_file,    \* warsaw_map.png
    named_segments_file, \* warsaw_named_road_segments.csv
    osm,           \* the road network the map server holds
    map_pc,        \* get_map.py: "off", "idle", "start", "loaded", "downloaded",
                   \*   "saved", "done", "crashed"
    map_G,         \* get_map.py: G
    ext_pc,        \* extract_segments.py: "off", "idle", "start", "loaded",
                   \*   "downloaded", "saved", "done", "failed"
    ext_G,         \* extract_segments.py: G
    acq_runs,      \* runs of get_map.py and extract_segments.py started
    downloads,     \* completed calls of ox.graph_from_place
    graph_deleted, \* the graph file was deleted at some time
    overlapped     \* a run was started while the other script was running

simVars == <<sim_pc, segments_df, sim_idx, sim_hour, traffic_data, rng, rng_pos, normal_call>>

trainVars == <<train_pc, train_run, train_df, train_mem>>

appVars == <<app_up, cache_resource, cache_data, load_calls, session_state, ui>>

repVars == <<rep_pc, roads_df, traffic_hour_df, merged_gdf, to_plot, plot_idx, folium_map>>

acqVars ==
    <<graph_file, image_file, named_segments_file, osm, map_pc, map_G, ext_pc, ext_G,
      acq_runs, downloads, graph_deleted, overlapped>>

vars == <<fs, console, simVars, trainVars, appVars, repVars, acqVars>>

NoFiles == [segments |-> Absent, traffic |-> Absent, model |-> Absent, encoder |-> Absent,
            html |-> Absent]

EmptyTable == Table({}, <<>>)

\* The processes that a specification does not run.
NoMem == [classes_ |-> <<>>, fitted |-> FALSE]

TrainIdle == train_pc = "idle" /\ train_run = 0 /\ train_df = EmptyTable /\ train_mem = NoMem

\* What a script run renders: the page, its messages, the query the handler
\* got, its calls into the encoder and the model, the metric, the traffic
\* level and the map; and, of the run itself, which load functions' bodies
\* ran in it and which artifact files were on disk during it.
NoUi == [screen |-> "none", messages |-> {}, query |-> <<>>, transform_calls |-> 0,
         encoded |-> <<>>, predict_calls |-> 0, metric |-> <<>>, level |-> "none", map |-> <<>>,
         ran_load |-> {}, on_disk |-> {}]

AppDown ==
    /\ cache_resource = <<>> /\ cache_data = <<>> /\ load_calls = [model |-> 0, segments |-> 0]
    /\ session_state = <<>> /\ ui = NoUi

AppIdle == app_up = FALSE /\ AppDown

\* The acquisition scripts are not part of the stage that runs.
AcqOff ==
    /\ graph_file = Absent /\ image_file = Absent /\ named_segments_file = Absent
    /\ osm = {} /\ map_pc = "off" /\ map_G = {} /\ ext_pc = "off" /\ ext_G = {}
    /\ acq_runs = 0 /\ downloads = 0 /\ graph_deleted = FALSE /\ overlapped = FALSE

RepIdle ==
    /\ rep_pc = "idle" /\ roads_df = EmptyTable /\ traffic_hour_df = <<>> /\ merged_gdf = <<>>
    /\ to_plot = <<>> /\ plot_idx = 0 /\ folium_map = <<>>

\* ------------------------------------------------------ simulate_traffic.py
\* Standard normal deviates the stream may hold, in hundredths: they give
\* negative draws, draws under the floor, and draws that round up, round
\* down and round half to even.
ZDraws == {-1100, -263, -5, 0, 251}

\* np.random.normal(mean, sd), in hundredths of a km/h, for the deviate z.
Normal(mean, sd, z) == 100 * mean + sd * z

\* Mutant of Distribution: the morning rush ends before 9.
Distribution_RushEndsBefore9(h) ==
    IF (7 <= h /\ h < 9) \/ (16 <= h /\ h <= 18) THEN <<18, 5>>
    ELSE IF 10 <= h /\ h <= 15 THEN <<30, 7>>
    ELSE IF 19 <= h /\ h <= 22 THEN <<40, 5>>
    ELSE <<50, 5>>

\* The (mean, sd) that simulate_speed passes for hour-of-day h.
Distribution(h) ==
    IF (7 <= h /\ h <= 9) \/ (16 <= h /\ h <= 18) THEN <<18, 5>>
    ELSE IF 10 <= h /\ h <= 15 THEN <<30, 7>>
    ELSE IF 19 <= h /\ h <= 22 THEN <<40, 5>>
    ELSE <<50, 5>>

simulate_speed(hour, z) ==
    LET d == Distribution(HourInt(hour)) IN Normal(d[1], d[2], z)

\* Mutant of Floor5: no floor.
Floor5_NoFloor(x) == x

\* max(5, x) for x in hundredths.
Floor5(x) == IF x > 100 * SPEED_FLOOR THEN x ELSE 100 * SPEED_FLOOR

\* round(x, 1): hundredths to tenths, halves to the even tenth.
Round1(x) ==
    LET q == x \div 10
        r == x % 10
    IN IF r < 5 THEN q
       ELSE IF r > 5 THEN q + 1
       ELSE IF q % 2 = 0 THEN q ELSE q + 1

UnnamedRoad == <<"U", "n", "n", "a", "m", "e", "d", " ", "R", "o", "a", "d">>

TrafficColumns == {"segment_id", "road_name", "hour", "speed_kph"}

NoCall == [hour |-> <<>>, mean |-> 0, sd |-> 0]

\* The dict appended to traffic_data.
TrafficRow(row, hour, speed) ==
    [segment_id |-> row.segment_id,
     road_name  |-> IF notna(row.name) THEN row.name ELSE UnnamedRoad,
     hour       |-> hour,
     speed_kph  |-> Round1(speed)]

\* The whole table a run over table t writes when its stream is zs.
SimulatedTraffic(t, zs) ==
    Table(TrafficColumns,
          [k \in 1..(Len(t.rows) * Len(hours)) |->
              LET row  == t.rows[((k - 1) \div Len(hours)) + 1]
                  hour == hours[((k - 1) % Len(hours)) + 1]
                  z    == zs[((k - 1) % StreamLen) + 1]
              IN TrafficRow(row, hour, Floor5(simulate_speed(hour, z)))])

\* The stream whose every draw is the mean.
MeanStream == [i \in 1..StreamLen |-> 0]

\* Traffic files left by earlier simulation runs.
TrafficTables == {SimulatedTraffic(t, MeanStream) : t \in SegmentTables}

SimIdle ==
    /\ sim_pc = "idle" /\ segments_df = EmptyTable /\ sim_idx = 0 /\ sim_hour = 0
    /\ traffic_data = <<>> /\ rng = <<>> /\ rng_pos = 0 /\ normal_call = NoCall

\* A run of simulate_traffic.py is about to start.
InitSim ==
    /\ \E f \in {Absent} \cup {File(t) : t \in SegmentTables} :
           fs = [NoFiles EXCEPT !.segments = f]
    /\ sim_pc = "start"
    /\ segments_df = EmptyTable
    /\ sim_idx = 0
    /\ sim_hour = 0
    /\ traffic_data = <<>>
    /\ rng \in [1..StreamLen -> ZDraws]
    /\ rng_pos = 0
    /\ normal_call = NoCall
    /\ console = {}
    /\ TrainIdle /\ AppIdle /\ RepIdle /\ AcqOff

\* segments_df = pd.read_csv("warsaw_road_segments.csv")
SimLoad ==
    /\ sim_pc = "start"
    /\ exists(fs.segments)
    /\ segments_df' = Content(fs.segments)
    /\ sim_idx' = 1
    /\ sim_hour' = 1
    /\ sim_pc' = "loop"
    /\ UNCHANGED <<trainVars, appVars, repVars, acqVars>>
    /\ UNCHANGED <<fs, traffic_data, rng, rng_pos, normal_call, console>>

\* pd.read_csv raises FileNotFoundError; the traceback names the file.
SimLoadMissing ==
    /\ sim_pc = "start"
    /\ ~exists(fs.segments)
    /\ sim_pc' = "crashed"
    /\ console' = console \cup {<<"simulate", "FileNotFoundError", "segments">>}
    /\ UNCHANGED <<trainVars, appVars, repVars, acqVars>>
    /\ UNCHANGED <<fs, segments_df, sim_idx, sim_hour, traffic_data, rng, rng_pos, normal_call>>

\* One pass of the inner loop: one sample for (segment sim_idx, hour sim_hour).
SimStep ==
    /\ sim_pc = "loop"
    /\ sim_idx <= Len(segments_df.rows)
    /\ LET row   == segments_df.rows[sim_idx]
           hour  == hours[sim_hour]
           z     == rng[(rng_pos % StreamLen) + 1]
           d     == Distribution(HourInt(hour))
           speed == Floor5(simulate_speed(hour, z))
       IN /\ traffic_data' = Append(traffic_data, TrafficRow(row, hour, speed))
          /\ normal_call' = [hour |-> hour, mean |-> d[1], sd |-> d[2]]
    /\ rng_pos' = rng_pos + 1
    /\ IF sim_hour = Len(hours)
       THEN sim_idx' = sim_idx + 1 /\ sim_hour' = 1
       ELSE sim_idx' = sim_idx /\ sim_hour' = sim_hour + 1
    /\ UNCHANGED <<trainVars, appVars, repVars, acqVars>>
    /\ UNCHANGED <<fs, sim_pc, segments_df, rng, console>>

\* traffic_df.to_csv("simulated_traffic.csv", index=False)
SimSave ==
    /\ sim_pc = "loop"
    /\ sim_idx > Len(segments_df.rows)
    /\ fs' = [fs EXCEPT !.traffic = File(Table(TrafficColumns, traffic_data))]
    /\ sim_pc' = "done"
    /\ UNCHANGED <<trainVars, appVars, repVars, acqVars>>
    /\ UNCHANGED <<segments_df, sim_idx, sim_hour, traffic_data, rng, rng_pos, normal_call, console>>

NextSim == SimLoad \/ SimLoadMissing \/ SimStep \/ SimSave

SpecSim == InitSim /\ [][NextSim]_vars

\* --------------------------------------------------- train_predict_model.py
\* segment_encoder.fit_transform(df["segment_id"]): classes_ is the sorted
\* array of the distinct identifiers.
FitClasses(df) == SortedSet({df.rows[i].segment_id : i \in 1..Len(df.rows)})

\* The pickled model: the run that fitted it and the encoding of its feature.
ModelPkl(run, classes) == [run |-> run, encoding |-> classes]

\* The pickled encoder.
EncoderPkl(run, classes) == [run |-> run, classes_ |-> classes]

TrainRunning == train_pc \in {"start", "loaded", "fitted", "model_saved"}

\* df = pd.read_csv("simulated_traffic.csv")
TrainLoad ==
    /\ train_pc = "start"
    /\ exists(fs.traffic)
    /\ train_df' = Content(fs.traffic)
    /\ train_pc' = "loaded"
    /\ UNCHANGED <<fs, console, train_run, train_mem, simVars, appVars, repVars, acqVars>>

\* pd.read_csv raises FileNotFoundError; the traceback names the file.
TrainLoadMissing ==
    /\ train_pc = "start"
    /\ ~exists(fs.traffic)
    /\ train_pc' = "crashed"
    /\ console' = console \cup {<<"train", "FileNotFoundError", "traffic">>}
    /\ UNCHANGED <<fs, train_run, train_df, train_mem, simVars, appVars, repVars, acqVars>>

\* Feature engineering, split, model.fit and evaluation.
TrainFit ==
    /\ train_pc = "loaded"
    /\ train_mem' = [classes_ |-> FitClasses(train_df), fitted |-> TRUE]
    /\ train_pc' = "fitted"
    /\ UNCHANGED <<fs, console, train_run, train_df, simVars, appVars, repVars, acqVars>>

\* joblib.dump(model, model_filename)
TrainDumpModel ==
    /\ train_pc = "fitted"
    /\ fs' = [fs EXCEPT !.model = File(ModelPkl(train_run, train_mem.classes_))]
    /\ train_pc' = "model_saved"
    /\ UNCHANGED <<console, train_run, train_df, train_mem, simVars, appVars, repVars, acqVars>>

\* joblib.dump(segment_encoder, encoder_filename)
TrainDumpEncoder ==
    /\ train_pc = "model_saved"
    /\ fs' = [fs EXCEPT !.encoder = File(EncoderPkl(train_run, train_mem.classes_))]
    /\ train_pc' = "done"
    /\ UNCHANGED <<console, train_run, train_df, train_mem, simVars, appVars, repVars, acqVars>>

\* The run ends before its last statement: the process is interrupted or a
\* statement raises (nothing in the script catches or cleans up).
TrainStop ==
    /\ TrainRunning
    /\ train_pc' = "stopped"
    /\ UNCHANGED <<fs, console, train_run, train_df, train_mem, simVars, appVars, repVars, acqVars>>

\* The script is run again.
TrainRerun ==
    /\ train_pc \in {"done", "crashed", "stopped"}
    /\ train_run < MaxRuns
    /\ train_run' = train_run + 1
    /\ train_pc' = "start"
    /\ train_df' = EmptyTable
    /\ train_mem' = NoMem
    /\ UNCHANGED <<fs, console, simVars, appVars, repVars, acqVars>>

\* Traffic files a later simulation run may leave: over one edge, or over two.
ResimulatedTables ==
    {SimulatedTraffic(ExtractSegments(g), MeanStream) : g \in {{3}, {1, 4}}}

\* Between training runs simulate_traffic.py is run over another segment
\* table and replaces simulated_traffic.csv.
TrafficReplaced ==
    /\ train_pc \in {"done", "crashed", "stopped"}
    /\ train_run < MaxRuns
    /\ \E t \in ResimulatedTables : fs' = [fs EXCEPT !.traffic = File(t)]
    /\ fs' /= fs
    /\ UNCHANGED <<console, simVars, trainVars, appVars, repVars, acqVars>>

\* ------------------------------------------------------------------- app.py
HasCol(t, c) == c \in t.columns

\* row["u"].astype(str) + "_" + row["v"].astype(str)
UVSegmentId(row) == Str(row.u) \o <<"_">> \o Str(row.v)

\* The table with segment_id derived from u and v when the column is absent.
WithSegmentId(t) ==
    IF HasCol(t, "segment_id") THEN t
    ELSE Table(t.columns \cup {"segment_id"},
               [i \in 1..Len(t.rows) |-> t.rows[i] @@ ("segment_id" :> UVSegmentId(t.rows[i]))])

\* name + " (" + segment_id + ")"
DisplayName(name, id) == name \o <<" ", "(">> \o id \o <<")">>

RECURSIVE DropDuplicatesFrom(_, _, _)
DropDuplicatesFrom(rows, i, seen) ==
    IF i > Len(rows) THEN <<>>
    ELSE IF rows[i].segment_id \in seen THEN DropDuplicatesFrom(rows, i + 1, seen)
    ELSE <<rows[i]>> \o DropDuplicatesFrom(rows, i + 1, seen \cup {rows[i].segment_id})

\* drop_duplicates(subset=["segment_id"]): the first row of each identifier.
DropDuplicates(rows) == DropDuplicatesFrom(rows, 1, {})

RECURSIVE InsertByName(_, _)
InsertByName(sorted, r) ==
    IF sorted = <<>> THEN <<r>>
    ELSE IF TextLess(r.name, Head(sorted).name) THEN <<r>> \o sorted
    ELSE <<Head(sorted)>> \o InsertByName(Tail(sorted), r)

RECURSIVE SortByNameFrom(_, _, _)
SortByNameFrom(rows, i, acc) ==
    IF i > Len(rows) THEN acc ELSE SortByNameFrom(rows, i + 1, InsertByName(acc, rows[i]))

\* sort_values(by="name"); rows of one name keep their order.
SortByName(rows) == SortByNameFrom(rows, 1, <<>>)

IsNamed(r) == notna(r.name)

\* The row of segments_with_geo for a row of the segment table.
GeoRow(r) ==
    [segment_id   |-> r.segment_id,
     name         |-> r.name,
     display_name |-> DisplayName(r.name, r.segment_id),
     geometry_obj |-> wkt_loads(r.geometry)]

None == <<>>

Loaded(result, messages) == [result |-> result, messages |-> messages]

\* Mutant of LoadModelAndEncoder: "and" for "or" in the presence check.
LoadModelAndEncoder_AndForOr(files) ==
    IF ~exists(files.model) /\ ~exists(files.encoder)
    THEN Loaded([model |-> None, segment_encoder |-> None], {"Model or encoder not found"})
    ELSE Loaded([model |-> files.model, segment_encoder |-> files.encoder], {})

\* load_model_and_encoder(): the pair returned and what it reports.
LoadModelAndEncoder(files) ==
    IF ~exists(files.model) \/ ~exists(files.encoder)
    THEN Loaded([model |-> None, segment_encoder |-> None], {"Model or encoder not found"})
    ELSE Loaded([model |-> files.model, segment_encoder |-> files.encoder], {})

\* load_segment_data(): the rows of the returned frame and what it reports.
LoadSegmentData(files) ==
    IF ~exists(files.segments)
    THEN Loaded(<<>>, {"Road segments file not found"})
    ELSE LET t == Content(files.segments) IN
        IF ~HasCol(t, "segment_id") /\ ~(HasCol(t, "u") /\ HasCol(t, "v"))
        THEN Loaded(<<>>, {"Cannot create 'segment_id'"})
        ELSE LET rows == WithSegmentId(t).rows IN
            IF \/ ~HasCol(t, "geometry")
               \/ \E i \in 1..Len(rows) : wkt_loads(rows[i].geometry) = WktError
               \/ ~HasCol(t, "name")
            THEN Loaded(<<>>, {"Error loading or processing segment data"})
            ELSE Loaded(SortByName(DropDuplicates(
                     [i \in 1..Len(SelectSeq(rows, IsNamed)) |-> GeoRow(SelectSeq(rows, IsNamed)[i])])),
                     {})

\* Mutant of InClasses: the membership test is left out.
InClasses_NotTested(id, encoder) == TRUE

\* segment_id in segment_encoder.classes_
InClasses(id, encoder) == \E i \in 1..Len(encoder.classes_) : encoder.classes_[i] = id

\* transform raises ValueError for a label it has not seen.
TransformRaises(encoder, id) == \A i \in 1..Len(encoder.classes_) : encoder.classes_[i] /= id

\* segment_encoder.transform([segment_id])[0]
Transform(encoder, id) == (CHOOSE i \in 1..Len(encoder.classes_) : encoder.classes_[i] = id) - 1

\* Speeds model.predict may return, in hundredths of a km/h.
PredictedSpeeds == {1490, 1500, 2990, 3000}

\* The hours the user sets the slider to.
HourChoices == {8, 23}

\* The traffic-level message of the Predict handler.
TrafficLevel(predicted_speed) ==
    IF predicted_speed < 1500 THEN "heavy"
    ELSE IF predicted_speed < 3000 THEN "moderate"
    ELSE "light"

\* get_color of the Traffic Map panel.
get_color_app(speed) ==
    IF speed < 1500 THEN "red"
    ELSE IF speed < 3000 THEN "orange"
    ELSE "green"

\* display_name_to_id.get(selected_display_name)
IdOfDisplayName(segs, display_name) ==
    LET last == CHOOSE i \in 1..Len(segs) :
                    /\ segs[i].display_name = display_name
                    /\ \A j \in (i + 1)..Len(segs) : segs[j].display_name /= display_name
    IN segs[last].segment_id

RECURSIVE Flatten(_)
\* all_coords.extend(...) over the lines of a MultiLineString.
Flatten(parts) == IF parts = <<>> THEN <<>> ELSE LatLon(Head(parts)) \o Flatten(Tail(parts))

\* The Traffic Map panel for the stored prediction st: the map, and the
\* messages it shows.
MapPanel(segs, st) ==
    LET hits == SelectSeq(segs, LAMBDA r : r.segment_id = st.selected_segment_id) IN
    IF hits = <<>> THEN [map |-> <<>>, messages |-> {"IndexError"}]
    ELSE LET g == hits[1].geometry_obj
             known == g.geom_type \in {"LineString", "MultiLineString"}
             coords == IF g.geom_type = "LineString"
                       THEN (IF g.parts = <<>> THEN <<>> ELSE LatLon(g.parts[1]))
                       ELSE IF g.geom_type = "MultiLineString" THEN Flatten(g.parts)
                       ELSE <<>>
         IN IF coords /= <<>>
            THEN [map |-> <<[segment_id |-> st.selected_segment_id,
                             locations  |-> coords,
                             color      |-> get_color_app(st.predicted_speed),
                             name       |-> st.selected_display_name,
                             hour       |-> st.hour,
                             speed      |-> st.predicted_speed]>>,
                  messages |-> {}]
            ELSE [map |-> <<>>,
                  messages |-> {"No coordinates to display"}
                               \cup (IF known THEN {} ELSE {"Unsupported geometry type"})]

\* The Predict button handler for the selection (id, display_name, hour), where
\* speed is what model.predict returns if it is called.
Handler(encoder, id, display_name, hour, speed) ==
    LET q == [segment_id |-> id, display_name |-> display_name, hour |-> hour] IN
    IF id = <<>>
    THEN [NoUi EXCEPT !.query = <<q>>, !.messages = {"Please select a valid road segment"}]
    ELSE IF ~InClasses(id, encoder)
    THEN [NoUi EXCEPT !.query = <<q>>, !.messages = {"not seen during model training"}]
    ELSE IF TransformRaises(encoder, id)
    THEN \* except Exception as e
         [NoUi EXCEPT !.query = <<q>>, !.transform_calls = 1,
                      !.messages = {"Error during prediction"}]
    ELSE [NoUi EXCEPT !.query = <<q>>,
                      !.transform_calls = 1,
                      !.encoded = <<Transform(encoder, id)>>,
                      !.predict_calls = 1,
                      !.metric = <<[display_name |-> display_name, hour |-> hour, speed |-> speed]>>,
                      !.level = TrafficLevel(speed)]

\* Mutant of ResourceCacheHit: deleting an artifact file invalidates the entry.
ResourceCacheHit_UnlessDeleted ==
    cache_resource /= <<>> /\ exists(fs.model) /\ exists(fs.encoder)

\* @st.cache_resource: the function has no arguments, so the entry made by
\* its first call serves every later call in the process.
ResourceCacheHit == cache_resource /= <<>>

\* @st.cache_data, likewise.
DataCacheHit == cache_data /= <<>>

\* The artifact files present.
OnDisk == {f \in {"model", "encoder", "segments"} : exists(fs[f])}

\* One run of the script: the cached loads, then the page.
AppScript(clicked, display_name, hour, speed) ==
    LET mr   == IF ResourceCacheHit THEN cache_resource[1] ELSE LoadModelAndEncoder(fs)
        sr   == IF DataCacheHit THEN cache_data[1] ELSE LoadSegmentData(fs)
        segs == sr.result
        loadMessages == mr.messages \cup sr.messages
        ran  == (IF ResourceCacheHit THEN {} ELSE {"load_model_and_encoder"})
                    \cup (IF DataCacheHit THEN {} ELSE {"load_segment_data"})
    IN /\ cache_resource' = <<mr>>
       /\ cache_data' = <<sr>>
       /\ load_calls' = [model    |-> load_calls.model + (IF ResourceCacheHit THEN 0 ELSE 1),
                         segments |-> load_calls.segments + (IF DataCacheHit THEN 0 ELSE 1)]
       /\ IF mr.result.model = None \/ mr.result.segment_encoder = None \/ segs = <<>>
          THEN /\ ui' = [NoUi EXCEPT !.screen = "warning",
                                     !.messages = loadMessages \cup {"Application cannot start"},
                                     !.ran_load = ran,
                                     !.on_disk = OnDisk]
               /\ UNCHANGED session_state
          ELSE LET h == IF clicked
                        THEN Handler(Content(mr.result.segment_encoder),
                                     IdOfDisplayName(segs, display_name), display_name, hour, speed)
                        ELSE [NoUi EXCEPT !.messages = {"Adjust inputs and click"}]
                   ss == IF h.predict_calls = 1
                         THEN <<[predicted_speed       |-> speed,
                                 selected_segment_id   |-> h.query[1].segment_id,
                                 selected_display_name |-> display_name,
                                 hour                  |-> hour]>>
                         ELSE session_state
                   panel == IF ss = <<>>
                            THEN [map |-> <<>>, messages |-> {"Click 'Predict and Show on Map'"}]
                            ELSE MapPanel(segs, ss[1])
               IN /\ session_state' = ss
                  /\ ui' = [h EXCEPT !.screen = "controls",
                                     !.messages = loadMessages \cup h.messages \cup panel.messages,
                                     !.map = panel.map,
                                     !.ran_load = ran,
                                     !.on_disk = OnDisk]

\* The options of the selectbox in the page last rendered.
Options == {cache_data[1].result[i].display_name : i \in 1..Len(cache_data[1].result)}

\* streamlit run app.py
AppStart ==
    /\ ~app_up
    /\ app_up' = TRUE
    /\ UNCHANGED <<fs, console, cache_resource, cache_data, load_calls, session_state, ui,
                   simVars, trainVars, repVars, acqVars>>

\* A browser opens the page: a new session, the script runs top to bottom.
AppOpen ==
    /\ app_up
    /\ ui.screen = "none"
    /\ AppScript(FALSE, <<>>, 8, 0)
    /\ UNCHANGED <<fs, console, app_up, simVars, trainVars, repVars, acqVars>>

\* The user changes a widget: the script reruns, the button not clicked.
AppRerun ==
    /\ app_up
    /\ ui.screen /= "none"
    /\ AppScript(FALSE, <<>>, 8, 0)
    /\ UNCHANGED <<fs, console, app_up, simVars, trainVars, repVars, acqVars>>

\* The user picks a segment and an hour and clicks Predict: the script reruns
\* with the button clicked.
AppPredict ==
    /\ app_up
    /\ ui.screen = "controls"
    /\ \E display_name \in Options, hour \in HourChoices, speed \in PredictedSpeeds :
           AppScript(TRUE, display_name, hour, speed)
    /\ UNCHANGED <<fs, console, app_up, simVars, trainVars, repVars, acqVars>>

\* The process ends: its caches and sessions are gone.
AppExit ==
    /\ app_up
    /\ app_up' = FALSE
    /\ cache_resource' = <<>>
    /\ cache_data' = <<>>
    /\ load_calls' = [model |-> 0, segments |-> 0]
    /\ session_state' = <<>>
    /\ ui' = NoUi
    /\ UNCHANGED <<fs, console, simVars, trainVars, repVars, acqVars>>

\* An artifact file is deleted.
DeleteFile ==
    /\ \E f \in {"model", "encoder", "segments"} :
           /\ exists(fs[f])
           /\ fs' = [fs EXCEPT ![f] = Absent]
    /\ UNCHANGED <<console, simVars, trainVars, appVars, repVars, acqVars>>

\* ------------------------------------------------------ visualize_traffic.py
\* TARGET_HOUR = "08:00"
TARGET_HOUR == <<"0", "8", ":", "0", "0">>

MAX_SEGMENTS_TO_PLOT == 500

\* A missing number (NaN) in a numeric column.
NaNNumber == -1

\* Mutant of get_color: the heavy tier includes its bound.
get_color_BoundIncluded(speed_kph) ==
    IF speed_kph = NaNNumber THEN "grey"
    ELSE IF speed_kph <= 150 THEN "red"
    ELSE IF speed_kph < 300 THEN "orange"
    ELSE "green"

\* get_color of the static report; speed_kph in tenths of a km/h.
get_color(speed_kph) ==
    IF speed_kph = NaNNumber THEN "grey"
    ELSE IF speed_kph < 150 THEN "red"
    ELSE IF speed_kph < 300 THEN "orange"
    ELSE "green"

Say(script, message) == console' = console \cup {<<script, message>>}

RepRest == <<simVars, trainVars, appVars, acqVars>>

\* Lines 14-36: the segment table, with segment_id derived from u and v when
\* the column is absent.
RepLoadRoads ==
    /\ rep_pc = "start"
    /\ IF ~exists(fs.segments)
       THEN /\ Say("report", "Error: Road segments file not found")
            /\ rep_pc' = "halted"
            /\ UNCHANGED roads_df
       ELSE LET t == Content(fs.segments) IN
            IF ~HasCol(t, "segment_id") /\ ~(HasCol(t, "u") /\ HasCol(t, "v"))
            THEN /\ Say("report", "Error: Cannot proceed without 'segment_id' or 'u'/'v' columns")
                 /\ rep_pc' = "halted"
                 /\ UNCHANGED roads_df
            ELSE /\ roads_df' = WithSegmentId(t)
                 /\ rep_pc' = "roads_loaded"
                 /\ UNCHANGED console
    /\ UNCHANGED <<fs, traffic_hour_df, merged_gdf, to_plot, plot_idx, folium_map, RepRest>>

IsTargetHour(r) == r.hour = TARGET_HOUR

\* Lines 39-55: the traffic rows of TARGET_HOUR.
RepLoadTraffic ==
    /\ rep_pc = "roads_loaded"
    /\ IF ~exists(fs.traffic)
       THEN /\ Say("report", "Error: Traffic data file not found")
            /\ rep_pc' = "halted"
            /\ UNCHANGED traffic_hour_df
       ELSE /\ traffic_hour_df' = SelectSeq(Content(fs.traffic).rows, IsTargetHour)
            /\ rep_pc' = "traffic_loaded"
            /\ IF SelectSeq(Content(fs.traffic).rows, IsTargetHour) = <<>>
               THEN Say("report", "Warning: No traffic data found for hour")
               ELSE UNCHANGED console
    /\ UNCHANGED <<fs, roads_df, merged_gdf, to_plot, plot_idx, folium_map, RepRest>>

\* Lines 57-70: the geometry column from WKT to geometry objects.
RepGeometry ==
    /\ rep_pc = "traffic_loaded"
    /\ IF ~HasCol(roads_df, "geometry")
       THEN /\ Say("report", "Error: 'geometry' column not found")
            /\ rep_pc' = "halted"
            /\ UNCHANGED roads_df
       ELSE IF \E i \in 1..Len(roads_df.rows) : wkt_loads(roads_df.rows[i].geometry) = WktError
       THEN /\ Say("report", "Error converting geometry")
            /\ rep_pc' = "halted"
            /\ UNCHANGED roads_df
       ELSE /\ roads_df' = [roads_df EXCEPT !.rows =
                               [i \in 1..Len(roads_df.rows) |->
                                   [roads_df.rows[i] EXCEPT !.geometry = wkt_loads(@)]]]
            /\ rep_pc' = "geometry_done"
            /\ UNCHANGED console
    /\ UNCHANGED <<fs, traffic_hour_df, merged_gdf, to_plot, plot_idx, folium_map, RepRest>>

RECURSIVE MergeFrom(_, _, _)
MergeFrom(left, right, i) ==
    IF i > Len(left) THEN <<>>
    ELSE LET matches == SelectSeq(right, LAMBDA r : r.segment_id = left[i].segment_id)
         IN [j \in 1..Len(matches) |-> left[i] @@ matches[j]] \o MergeFrom(left, right, i + 1)

\* roads_gdf.merge(traffic_hour_df, on="segment_id", how="inner")
Merge(left, right) == MergeFrom(left, right, 1)

\* merged_gdf.head(n)
Head_(rows, n) == SubSeq(rows, 1, IF Len(rows) > n THEN n ELSE Len(rows))

\* Lines 72-94: the merge; merged_gdf_to_plot is assigned in the else branch only.
RepMerge ==
    /\ rep_pc = "geometry_done"
    /\ LET merged == Merge(roads_df.rows, traffic_hour_df) IN
          /\ merged_gdf' = merged
          /\ IF merged = <<>>
             THEN /\ Say("report", "Warning: After merging, no road segments have traffic data")
                  /\ UNCHANGED to_plot
             ELSE /\ to_plot' = <<Head_(merged, MAX_SEGMENTS_TO_PLOT)>>
                  /\ UNCHANGED console
    /\ rep_pc' = "merged"
    /\ UNCHANGED <<fs, roads_df, traffic_hour_df, plot_idx, folium_map, RepRest>>

\* Lines 96-109: m = folium.Map(...)
RepInitMap ==
    /\ rep_pc = "merged"
    /\ folium_map' = <<>>
    /\ plot_idx' = 1
    /\ rep_pc' = "plotting"
    /\ UNCHANGED <<fs, console, roads_df, traffic_hour_df, merged_gdf, to_plot, RepRest>>

\* Line 124 when merged_gdf_to_plot was never assigned: NameError, uncaught.
RepPlotUnassigned ==
    /\ rep_pc = "plotting"
    /\ to_plot = <<>>
    /\ Say("report", "NameError: name 'merged_gdf_to_plot' is not defined")
    /\ rep_pc' = "crashed"
    /\ UNCHANGED <<fs, roads_df, traffic_hour_df, merged_gdf, to_plot, plot_idx, folium_map, RepRest>>

\* row.get("road_name", row.get("name", "Unnamed Road")), NaN replaced.
RoadNameDisplay(row) ==
    LET n == IF "road_name" \in DOMAIN row THEN row.road_name
             ELSE IF "name" \in DOMAIN row THEN row.name ELSE UnnamedRoad
    IN IF notna(n) THEN n ELSE UnnamedRoad

\* Lines 124-140: one pass of the plotting loop.
RepPlot ==
    /\ rep_pc = "plotting"
    /\ to_plot /= <<>>
    /\ plot_idx <= Len(to_plot[1])
    /\ LET row == to_plot[1][plot_idx]
           g   == row.geometry
       IN IF is_empty(g)
          THEN \* continue
               /\ plot_idx' = plot_idx + 1
               /\ UNCHANGED <<folium_map, console, rep_pc>>
          ELSE IF g.geom_type = "MultiLineString"
          THEN \* .coords raises NotImplementedError, uncaught
               /\ Say("report", "NotImplementedError: Multi-part geometries do not provide a coordinate sequence")
               /\ rep_pc' = "crashed"
               /\ UNCHANGED <<folium_map, plot_idx>>
          ELSE /\ folium_map' = Append(folium_map,
                      [segment_id |-> row.segment_id,
                       locations  |-> LatLon(g.parts[1]),
                       color      |-> get_color(row.speed_kph),
                       road       |-> RoadNameDisplay(row),
                       speed      |-> row.speed_kph])
               /\ plot_idx' = plot_idx + 1
               /\ UNCHANGED <<console, rep_pc>>
    /\ UNCHANGED <<fs, roads_df, traffic_hour_df, merged_gdf, to_plot, RepRest>>

\* Lines 142-146: m.save(output_html_path)
RepSave ==
    /\ rep_pc = "plotting"
    /\ to_plot /= <<>>
    /\ plot_idx > Len(to_plot[1])
    /\ fs' = [fs EXCEPT !.html = File(folium_map)]
    /\ rep_pc' = "done"
    /\ UNCHANGED <<console, roads_df, traffic_hour_df, merged_gdf, to_plot, plot_idx, folium_map, RepRest>>

\* ---------------------------------------------------------- segment tables
\* A segment table saved with its index: columns u, v, key and no segment_id.
IndexedTable(g) ==
    Table({"u", "v", "key", "geometry", "name", "length"},
          [i \in 1..Len(gdf_edges(g)) |->
              LET e == gdf_edges(g)[i]
              IN [u |-> e.u, v |-> e.v, key |-> e.key, geometry |-> ToWkt(e.geometry),
                  name |-> e.name, length |-> e.length]])

\* Geometry cells that are absent, malformed, empty or not a LineString.
BadWkts ==
    {WktNaN,
     Wkt("LINESTRING", <<(<<21, 52>>)>>),
     Wkt("LINESTRING", <<>>),
     Wkt("POINT", <<(<<21, 52>>)>>),
     Wkt("MULTILINESTRING", <<(<<21, 52, 22, 52>>), (<<22, 52, 22, 53>>)>>)}

\* Table t with the geometry of its first row replaced by w.
Damaged(t, w) == Table(t.columns, [t.rows EXCEPT ![1].geometry = w])

\* Table t without its segment_id column.
WithoutId(t) ==
    Table(t.columns \ {"segment_id"},
          [i \in 1..Len(t.rows) |->
              [f \in DOMAIN t.rows[i] \ {"segment_id"} |-> t.rows[i][f]]])

\* The two parallel edges 1 -> 2, and the edges 1 -> 2 and 2 -> 1.
ParallelEdges == {1, 2}

TwoNamedEdges == {1, 3}

\* The segment files the service and the report may find.
SegmentFiles ==
    {Absent}
        \cup {File(t) : t \in SegmentTables}
        \cup {File(IndexedTable(ParallelEdges)), File(WithoutId(ExtractSegments(TwoNamedEdges)))}
        \cup {File(Damaged(ExtractSegments(TwoNamedEdges), w)) : w \in BadWkts}

\* The model and encoder files a finished training run over table t leaves.
TrainedPair(run, t) ==
    <<File(ModelPkl(run, FitClasses(t))), File(EncoderPkl(run, FitClasses(t)))>>

\* --------------------------------------------------------- specifications
\* Training runs, with the service starting at any moment.
InitTrain ==
    /\ \E f \in {Absent} \cup {File(t) : t \in TrafficTables} :
           fs = [NoFiles EXCEPT !.traffic = f]
    /\ console = {}
    /\ train_pc = "start" /\ train_run = 1 /\ train_df = EmptyTable /\ train_mem = NoMem
    /\ SimIdle /\ AppIdle /\ RepIdle /\ AcqOff

NextTrain ==
    \/ TrainLoad \/ TrainLoadMissing \/ TrainFit \/ TrainDumpModel \/ TrainDumpEncoder
    \/ TrainStop \/ TrainRerun \/ TrafficReplaced
    \/ AppStart \/ AppOpen \/ AppExit

SpecTrain == InitTrain /\ [][NextTrain]_vars

\* The traffic tables the model on disk may have been trained on: those of
\* the graphs that hold the first edge.
TrainedOnTables ==
    {SimulatedTraffic(ExtractSegments(g), MeanStream) : g \in {h \in Graphs : 1 \in h}}

\* The service over the artifacts earlier stages left.
InitServe ==
    /\ \E sf \in SegmentFiles :
       \E pair \in {<<Absent, Absent>>} \cup {TrainedPair(1, t) : t \in TrainedOnTables} :
           fs = [NoFiles EXCEPT !.segments = sf, !.model = pair[1], !.encoder = pair[2]]
    /\ console = {}
    /\ SimIdle /\ TrainIdle /\ AppIdle /\ RepIdle /\ AcqOff

NextServe == AppStart \/ AppOpen \/ AppRerun \/ AppPredict \/ AppExit \/ DeleteFile

SpecServe == InitServe /\ [][NextServe]_vars

\* A stream that repeats one deviate.
ConstantStream(z) == [i \in 1..StreamLen |-> z]

\* Deviates for which the 08:00 draw is 14.9, 15.0, 29.9 and 30.0 km/h, and one
\* that is floored.
ReportZ == {-62, -60, 238, 240, -1100}

\* The traffic files the report may find.
ReportTrafficFiles ==
    {Absent} \cup {File(SimulatedTraffic(t, ConstantStream(z))) : t \in SegmentTables, z \in ReportZ}

\* A run of visualize_traffic.py over the files earlier stages left.
InitReport ==
    /\ \E sf \in SegmentFiles : \E tf \in ReportTrafficFiles :
           fs = [NoFiles EXCEPT !.segments = sf, !.traffic = tf]
    /\ console = {}
    /\ rep_pc = "start" /\ roads_df = EmptyTable /\ traffic_hour_df = <<>> /\ merged_gdf = <<>>
    /\ to_plot = <<>> /\ plot_idx = 0 /\ folium_map = <<>>
    /\ SimIdle /\ TrainIdle /\ AppIdle /\ AcqOff

NextReport ==
    \/ RepLoadRoads \/ RepLoadTraffic \/ RepGeometry \/ RepMerge \/ RepInitMap
    \/ RepPlotUnassigned \/ RepPlot \/ RepSave

SpecReport == InitReport /\ [][NextReport]_vars

\* Any one stage, run over the files it finds.
\* ------------------------------------------- get_map.py, extract_segments.py
\* The stages the acquisition scripts leave alone.
AcqRest == <<simVars, trainVars, appVars, repVars>>

GraphCached_AlwaysDownload(f) == FALSE

\* os.path.exists(graph_filepath)
GraphCached(f) == exists(f)

MapRunning == map_pc \in {"start", "loaded", "downloaded", "saved"}

ExtRunning == ext_pc \in {"start", "loaded", "downloaded", "saved"}

\* python get_map.py
MapStart ==
    /\ map_pc \in {"idle", "done", "crashed"}
    /\ acq_runs < MaxRuns
    /\ map_pc' = "start" /\ map_G' = {}
    /\ acq_runs' = acq_runs + 1
    /\ overlapped' = (overlapped \/ ExtRunning)
    /\ UNCHANGED <<fs, console, graph_file, image_file, named_segments_file, osm, ext_pc, ext_G,
                   downloads, graph_deleted, AcqRest>>

\* The graph file exists: G = ox.load_graphml(graph_filepath).
MapLoad ==
    /\ map_pc = "start"
    /\ GraphCached(graph_file)
    /\ Say("get_map.py", "Loading graph")
    /\ map_G' = Content(graph_file)
    /\ map_pc' = "loaded"
    /\ UNCHANGED <<fs, graph_file, image_file, named_segments_file, osm, ext_pc, ext_G,
                   acq_runs, downloads, graph_deleted, overlapped, AcqRest>>

\* It does not: G = ox.graph_from_place(city, network_type='drive').
MapDownload ==
    /\ map_pc = "start"
    /\ ~GraphCached(graph_file)
    /\ Say("get_map.py", "Downloading road network")
    /\ map_G' = osm
    /\ downloads' = downloads + 1
    /\ map_pc' = "downloaded"
    /\ UNCHANGED <<fs, graph_file, image_file, named_segments_file, osm, ext_pc, ext_G,
                   acq_runs, graph_deleted, overlapped, AcqRest>>

\* ox.graph_from_place raises (no connection): the script dies.
MapDownloadFails ==
    /\ map_pc = "start"
    /\ ~GraphCached(graph_file)
    /\ Say("get_map.py", "Downloading road network")
    /\ map_pc' = "crashed"
    /\ UNCHANGED <<fs, graph_file, image_file, named_segments_file, osm, map_G, ext_pc, ext_G,
                   acq_runs, downloads, graph_deleted, overlapped, AcqRest>>

\* ox.save_graphml(G, graph_filepath)
MapSave ==
    /\ map_pc = "downloaded"
    /\ Say("get_map.py", "Saving graph")
    /\ graph_file' = File(map_G)
    /\ map_pc' = "saved"
    /\ UNCHANGED <<fs, image_file, named_segments_file, osm, map_G, ext_pc, ext_G,
                   acq_runs, downloads, graph_deleted, overlapped, AcqRest>>

\* ox.plot_graph(G, ...); plt.savefig(image_filepath, ...)
MapPlot ==
    /\ map_pc \in {"loaded", "saved"}
    /\ image_file' = File(map_G)
    /\ map_pc' = "done"
    /\ UNCHANGED <<fs, console, graph_file, named_segments_file, osm, map_G, ext_pc, ext_G,
                   acq_runs, downloads, graph_deleted, overlapped, AcqRest>>

\* python extract_segments.py
ExtStart ==
    /\ ext_pc \in {"idle", "done", "failed"}
    /\ acq_runs < MaxRuns
    /\ ext_pc' = "start" /\ ext_G' = {}
    /\ acq_runs' = acq_runs + 1
    /\ overlapped' = (overlapped \/ MapRunning)
    /\ UNCHANGED <<fs, console, graph_file, image_file, named_segments_file, osm, map_pc, map_G,
                   downloads, graph_deleted, AcqRest>>

ExtLoad ==
    /\ ext_pc = "start"
    /\ GraphCached(graph_file)
    /\ Say("extract_segments.py", "Loading graph")
    /\ ext_G' = Content(graph_file)
    /\ ext_pc' = "loaded"
    /\ UNCHANGED <<fs, graph_file, image_file, named_segments_file, osm, map_pc, map_G,
                   acq_runs, downloads, graph_deleted, overlapped, AcqRest>>

ExtDownload ==
    /\ ext_pc = "start"
    /\ ~GraphCached(graph_file)
    /\ Say("extract_segments.py", "Downloading road network")
    /\ ext_G' = osm
    /\ downloads' = downloads + 1
    /\ ext_pc' = "downloaded"
    /\ UNCHANGED <<fs, graph_file, image_file, named_segments_file, osm, map_pc, map_G,
                   acq_runs, graph_deleted, overlapped, AcqRest>>

\* ox.graph_from_place raises: except Exception prints the error, the run ends.
ExtDownloadFails ==
    /\ ext_pc = "start"
    /\ ~GraphCached(graph_file)
    /\ console' = console \cup {<<"extract_segments.py", "Downloading road network">>,
                                <<"extract_segments.py", "Error">>}
    /\ ext_pc' = "failed"
    /\ UNCHANGED <<fs, graph_file, image_file, named_segments_file, osm, map_pc, map_G, ext_G,
                   acq_runs, downloads, graph_deleted, overlapped, AcqRest>>

ExtSave ==
    /\ ext_pc = "downloaded"
    /\ Say("extract_segments.py", "Saving graph")
    /\ graph_file' = File(ext_G)
    /\ ext_pc' = "saved"
    /\ UNCHANGED <<fs, image_file, named_segments_file, osm, map_pc, map_G, ext_G,
                   acq_runs, downloads, graph_deleted, overlapped, AcqRest>>

\* named_segments_df = segments_df[segments_df["name"].notna()]
NamedSegments(t) == Table(t.columns, SelectSeq(t.rows, IsNamed))

\* Convert the graph, build segments_df and save both tables.
ExtExtract ==
    /\ ext_pc \in {"loaded", "saved"}
    /\ named_segments_file' = File(NamedSegments(ExtractSegments(ext_G)))
    /\ fs' = [fs EXCEPT !.segments = File(ExtractSegments(ext_G))]
    /\ ext_pc' = "done"
    /\ UNCHANGED <<console, graph_file, image_file, osm, map_pc, map_G, ext_G,
                   acq_runs, downloads, graph_deleted, overlapped, AcqRest>>

\* Someone removes warsaw_graph.graphml.
DeleteGraph ==
    /\ exists(graph_file)
    /\ graph_file' = Absent
    /\ graph_deleted' = TRUE
    /\ UNCHANGED <<fs, console, image_file, named_segments_file, osm, map_pc, map_G, ext_pc,
                   ext_G, acq_runs, downloads, overlapped, AcqRest>>

\* Neither script has run; the graph file may be there from an earlier day.
InitAcquire ==
    /\ fs = NoFiles /\ console = {}
    /\ osm \in Graphs
    /\ graph_file \in {Absent, File(osm)}
    /\ image_file = Absent /\ named_segments_file = Absent
    /\ map_pc = "idle" /\ map_G = {} /\ ext_pc = "idle" /\ ext_G = {}
    /\ acq_runs = 0 /\ downloads = 0 /\ graph_deleted = FALSE /\ overlapped = FALSE
    /\ SimIdle /\ TrainIdle /\ AppIdle /\ RepIdle

NextAcquire ==
    \/ MapStart \/ MapLoad \/ MapDownload \/ MapDownloadFails \/ MapSave \/ MapPlot
    \/ ExtStart \/ ExtLoad \/ ExtDownload \/ ExtDownloadFails \/ ExtSave \/ ExtExtract
    \/ DeleteGraph

SpecAcquire == InitAcquire /\ [][NextAcquire]_vars

AcquireStage == map_pc /= "off"

Init == InitSim \/ InitTrain \/ InitServe \/ InitReport \/ InitAcquire

SimStage == sim_pc /= "idle"

TrainStage == train_pc /= "idle"

ReportStage == rep_pc /= "idle"

ServeStage == sim_pc = "idle" /\ train_pc = "idle" /\ rep_pc = "idle" /\ map_pc = "off"

\* The stage that Init started is the one that runs.
Next ==
    \/ SimStage /\ SimLoad
    \/ SimStage /\ SimLoadMissing
    \/ SimStage /\ SimStep
    \/ SimStage /\ SimSave
    \/ TrainStage /\ TrainLoad
    \/ TrainStage /\ TrainLoadMissing
    \/ TrainStage /\ TrainFit
    \/ TrainStage /\ TrainDumpModel
    \/ TrainStage /\ TrainDumpEncoder
    \/ TrainStage /\ TrainStop
    \/ TrainStage /\ TrainRerun
    \/ TrainStage /\ TrafficReplaced
    \/ (TrainStage \/ ServeStage) /\ AppStart
    \/ (TrainStage \/ ServeStage) /\ AppOpen
    \/ (TrainStage \/ ServeStage) /\ AppExit
    \/ ServeStage /\ AppRerun
    \/ ServeStage /\ AppPredict
    \/ ServeStage /\ DeleteFile
    \/ ReportStage /\ RepLoadRoads
    \/ ReportStage /\ RepLoadTraffic
    \/ ReportStage /\ RepGeometry
    \/ ReportStage /\ RepMerge
    \/ ReportStage /\ RepInitMap
    \/ ReportStage /\ RepPlotUnassigned
    \/ ReportStage /\ RepPlot
    \/ ReportStage /\ RepSave
    \/ AcquireStage /\ MapStart
    \/ AcquireStage /\ MapLoad
    \/ AcquireStage /\ MapDownload
    \/ AcquireStage /\ MapDownloadFails
    \/ AcquireStage /\ MapSave
    \/ AcquireStage /\ MapPlot
    \/ AcquireStage /\ ExtStart
    \/ AcquireStage /\ ExtLoad
    \/ AcquireStage /\ ExtDownload
    \/ AcquireStage /\ ExtDownloadFails
    \/ AcquireStage /\ ExtSave
    \/ AcquireStage /\ ExtExtract
    \/ AcquireStage /\ DeleteGraph

Spec == Init /\ [][Next]_vars

\* ==================================================================== claims
\* ---------------------------------------------------------------------- C1
\* The handler of the last script run got a query whose segment_id is not
\* among the classes of the loaded encoder.
C1_UnknownQuery ==
    /\ ui.query /= <<>>
    /\ LET classes == Content(cache_resource[1].result.segment_encoder).classes_
       IN ui.query[1].segment_id \notin {classes[i] : i \in 1..Len(classes)}

\* C1: a query for a segment the encoder does not know is rejected with an
\* error message; neither transform nor predict ran, no speed and no traffic
\* level is shown for it, and the service can take the next query.
C1_UnknownSegmentRejected ==
    C1_UnknownQuery =>
        /\ ui.messages \cap {"not seen during model training",
                             "Please select a valid road segment"} /= {}
        /\ ui.transform_calls = 0
        /\ ui.predict_calls = 0
        /\ ui.metric = <<>>
        /\ ui.level = "none"
        /\ app_up
        /\ ui.screen = "controls"
        /\ ENABLED AppPredict

\* An unknown segment was queried after an earlier query had been answered.
C1_Witness ==
    /\ C1_UnknownQuery
    /\ session_state /= <<>>
    /\ "not seen during model training" \in ui.messages

\* ---------------------------------------------------------------------- C2
\* The tiers as the specification states them; speed in hundredths of a km/h.
C2_Tier(speed) == IF speed < 1500 THEN 1 ELSE IF speed < 3000 THEN 2 ELSE 3

C2_Levels == <<"heavy", "moderate", "light">>

C2_Colours == <<"red", "orange", "green">>

\* C2: the traffic level the handler shows, the colour of the line on the
\* interactive map and the colour of every line of the static report are the
\* tier of their speed: under 15 heavy/red, from 15 and under 30
\* moderate/orange, from 30 light/green.
C2_ThreeTiersAgree ==
    /\ ui.metric /= <<>> => ui.level = C2_Levels[C2_Tier(ui.metric[1].speed)]
    /\ ui.map /= <<>> => ui.map[1].color = C2_Colours[C2_Tier(ui.map[1].speed)]
    /\ \A i \in 1..Len(folium_map) :
           folium_map[i].color = C2_Colours[C2_Tier(10 * folium_map[i].speed)]

\* The service shows 15.0 km/h as moderate and orange.
C2_Witness ==
    /\ ui.metric /= <<>> /\ ui.metric[1].speed = 1500 /\ ui.level = "moderate"
    /\ ui.map /= <<>> /\ ui.map[1].speed = 1500 /\ ui.map[1].color = "orange"

\* ---------------------------------------------------------------------- C3
\* The draw (hundredths of a km/h) behind row i of traffic_data.
DrawOfRow(i) == simulate_speed(traffic_data[i].hour, rng[((i - 1) % StreamLen) + 1])

\* C3: every speed_kph the simulation appends, and every speed_kph in the file
\* it writes, is at least 5 km/h (50 tenths), whatever the draw was.
C3_SpeedNeverBelowFloor ==
    /\ \A i \in 1..Len(traffic_data) : traffic_data[i].speed_kph >= 50
    /\ exists(fs.traffic) =>
           \A i \in 1..Len(Content(fs.traffic).rows) : Content(fs.traffic).rows[i].speed_kph >= 50

\* A finished run in which one row came from a negative draw and another from
\* a positive draw under the floor.
C3_Witness ==
    /\ sim_pc = "done"
    /\ \E i \in 1..Len(traffic_data) : DrawOfRow(i) < 0 /\ traffic_data[i].speed_kph = 50
    /\ \E i \in 1..Len(traffic_data) :
           DrawOfRow(i) > 0 /\ DrawOfRow(i) < 500 /\ traffic_data[i].speed_kph = 50

\* ---------------------------------------------------------------------- C4
\* C4: a finished simulation run wrote exactly one row per (segment, hour) for
\* each hour 0..23: (number of segments) x 24 rows, and no (segment_id, hour)
\* pair twice.
C4_OneSamplePerSegmentHour ==
    sim_pc = "done" =>
        LET rows == Content(fs.traffic).rows
            segs == segments_df.rows
        IN /\ Len(rows) = Len(segs) * 24
           /\ \A i, j \in 1..Len(rows) :
                  (rows[i].segment_id = rows[j].segment_id /\ rows[i].hour = rows[j].hour)
                      => i = j
           /\ \A s \in 1..Len(segs) : \A h \in 0..23 :
                  \E i \in 1..Len(rows) :
                      rows[i].segment_id = segs[s].segment_id /\ rows[i].hour = FormatHour(h)

\* A finished run over a table of two segments.
C4_Witness ==
    /\ sim_pc = "done"
    /\ Len(segments_df.rows) = 2
    /\ Len(Content(fs.traffic).rows) = 48

\* ---------------------------------------------------------------------- C5
\* The bucketing as the specification states it.
C5_BucketHours ==
    <<{7, 8, 9, 16, 17, 18}, 10..15, 19..22, (0..6) \cup {23}>>

C5_BucketParams == <<(<<18, 5>>), (<<30, 7>>), (<<40, 5>>), (<<50, 5>>)>>

\* C5: the hour text of every np.random.normal call is "HH:00" of exactly one
\* hour h in 0..23, h lies in exactly one bucket, and the call's (mean, sd) are
\* that bucket's.
C5_BucketingPartitionsHours ==
    normal_call /= NoCall =>
        \E h \in 0..23 :
            /\ FormatHour(h) = normal_call.hour
            /\ \A h2 \in 0..23 : FormatHour(h2) = normal_call.hour => h2 = h
            /\ \E b \in 1..4 :
                   /\ h \in C5_BucketHours[b]
                   /\ \A b2 \in 1..4 : h \in C5_BucketHours[b2] => b2 = b
                   /\ <<normal_call.mean, normal_call.sd>> = C5_BucketParams[b]

\* The run has drawn for 23:00, the last hour, from the night bucket, after
\* having drawn for every other hour.
C5_Witness ==
    /\ normal_call.hour = FormatHour(23)
    /\ normal_call.mean = 50
    /\ Len(traffic_data) >= 24

\* ---------------------------------------------------------------------- C6
C6_Unique(rows) ==
    \A i, j \in 1..Len(rows) : rows[i].segment_id = rows[j].segment_id => i = j

\* C6: no two records of a segment table share a segment_id: the table on
\* disk, the table the simulation loaded, the table the report uses and the
\* table the service uses.
C6_SegmentIdsUnique ==
    /\ (exists(fs.segments) /\ HasCol(Content(fs.segments), "segment_id"))
           => C6_Unique(Content(fs.segments).rows)
    /\ C6_Unique(segments_df.rows)
    /\ C6_Unique(roads_df.rows)
    /\ cache_data /= <<>> => C6_Unique(cache_data[1].result)

\* ---------------------------------------------------------------------- C7
\* C7: whenever both files are on disk they are of one training run, and the
\* pair the service loaded is of one training run.
C7_ModelAndEncoderOfOneRun ==
    /\ (exists(fs.model) /\ exists(fs.encoder))
           => Content(fs.model).run = Content(fs.encoder).run
    /\ (cache_resource /= <<>> /\ cache_resource[1].result.model /= None)
           => Content(cache_resource[1].result.model).run
                  = Content(cache_resource[1].result.segment_encoder).run

\* ---------------------------------------------------------------------- C8
\* A record of the segment file whose geometry is absent, malformed, empty or
\* not a LineString.
C8_Bad(r) ==
    LET g == wkt_loads(r.geometry)
    IN g = WktError \/ g.geom_type /= "LineString" \/ is_empty(g)

\* The report got both files with their columns, one record is bad, and a
\* good record has traffic data for the target hour.
C8_Case ==
    /\ exists(fs.segments) /\ exists(fs.traffic)
    /\ LET t == Content(fs.segments) IN
          /\ {"segment_id", "geometry"} \subseteq t.columns
          /\ \E i \in 1..Len(t.rows) : C8_Bad(t.rows[i])
          /\ \E i \in 1..Len(t.rows) :
                 /\ ~C8_Bad(t.rows[i])
                 /\ \E k \in 1..Len(Content(fs.traffic).rows) :
                        /\ Content(fs.traffic).rows[k].segment_id = t.rows[i].segment_id
                        /\ Content(fs.traffic).rows[k].hour = TARGET_HOUR

\* C8: a run of the report over such files ends with the map saved, every
\* good record that has traffic data drawn, and a warning printed.
C8_BadGeometrySkippedWithWarning ==
    (C8_Case /\ rep_pc \in {"done", "halted", "crashed"}) =>
        /\ rep_pc = "done"
        /\ exists(fs.html)
        /\ \E m \in console : m[1] = "report"
        /\ LET t == Content(fs.segments) IN
           \A i \in 1..Len(t.rows) :
               (~C8_Bad(t.rows[i]) /\ \E k \in 1..Len(traffic_hour_df) :
                                          traffic_hour_df[k].segment_id = t.rows[i].segment_id)
                   => \E p \in 1..Len(folium_map) : folium_map[p].segment_id = t.rows[i].segment_id

\* ---------------------------------------------------------------------- C9
C9_Simulation ==
    (sim_pc \notin {"idle", "start"} /\ ~exists(fs.segments)) =>
        /\ sim_pc = "crashed"
        /\ <<"simulate", "FileNotFoundError", "segments">> \in console
        /\ ~exists(fs.traffic)

C9_Training ==
    (train_pc \notin {"idle", "start", "stopped"} /\ ~exists(fs.traffic)) =>
        /\ train_pc = "crashed"
        /\ <<"train", "FileNotFoundError", "traffic">> \in console
        /\ \A f \in {"model", "encoder"} : exists(fs[f]) => Content(fs[f]).run < train_run

C9_Report ==
    /\ (rep_pc \notin {"idle", "start"} /\ ~exists(fs.segments)) =>
           /\ rep_pc = "halted"
           /\ <<"report", "Error: Road segments file not found">> \in console
           /\ ~exists(fs.html)
    /\ (rep_pc \notin {"idle", "start", "roads_loaded"} /\ roads_df /= EmptyTable
            /\ ~exists(fs.traffic)) =>
           /\ rep_pc = "halted"
           /\ <<"report", "Error: Traffic data file not found">> \in console
           /\ ~exists(fs.html)

C9_NoService ==
    /\ ui.screen = "warning"
    /\ ui.query = <<>> /\ ui.predict_calls = 0 /\ ui.metric = <<>> /\ ui.map = <<>>

C9_Service ==
    /\ ui.screen = "controls" =>
           /\ cache_resource /= <<>> /\ cache_data /= <<>>
           /\ cache_resource[1].result.model /= None
           /\ cache_resource[1].result.segment_encoder /= None
           /\ cache_data[1].result /= <<>>
    /\ ("load_model_and_encoder" \in ui.ran_load /\ ~({"model", "encoder"} \subseteq ui.on_disk)) =>
           "Model or encoder not found" \in ui.messages /\ C9_NoService
    /\ ("load_segment_data" \in ui.ran_load /\ "segments" \notin ui.on_disk) =>
           "Road segments file not found" \in ui.messages /\ C9_NoService

\* C9: a stage that finds a required input file absent names the missing file
\* and stops without writing its output: no traffic file, no model or encoder
\* of that run, no map document; the service reports it and offers the
\* prediction controls only with the model, the encoder and a non-empty
\* segment table loaded.
C9_MissingArtifactHalts == C9_Simulation /\ C9_Training /\ C9_Report /\ C9_Service

\* The service started with the encoder file on disk and the model file
\* absent.
C9_Witness ==
    /\ "load_model_and_encoder" \in ui.ran_load
    /\ ui.on_disk = {"encoder", "segments"}
    /\ ui.screen = "warning"

\* --------------------------------------------------------------------- C10
\* C10 as stated: each load function runs at most once in a process, and a
\* query is answered only while the artifact files are on disk (deleting them
\* ends the use of the cached artifacts).
C10_DeletionInvalidatesCache ==
    /\ load_calls.model <= 1 /\ load_calls.segments <= 1
    /\ ui.predict_calls = 1 => ui.on_disk = {"model", "encoder", "segments"}

\* C10 as amended: each load function runs at most once in a process, and an
\* entry of the cache stays as it is, whatever happens to the files, until the
\* process ends.
C10_CacheLivesUntilExit ==
    [][/\ load_calls'.model <= 1 /\ load_calls'.segments <= 1
       /\ (cache_resource /= <<>> /\ app_up') => cache_resource' = cache_resource
       /\ (cache_data /= <<>> /\ app_up') => cache_data' = cache_data]_vars

\* A query was answered from the cache in a script run during which none of
\* the artifact files was on disk.
C10_Witness ==
    /\ ui.predict_calls = 1
    /\ ui.on_disk = {}
    /\ ui.ran_load = {}
    /\ load_calls = [model |-> 1, segments |-> 1]


\* ---------------------------------------------------------------------- C11
\* Runs that follow one another (none started while the other script is
\* running) and between which nobody deleted the graph file download the
\* graph at most once.
C11_AtMostOneDownload == (~graph_deleted /\ ~overlapped) => downloads <= 1

\* A run whose existence test finds the graph file loads that file and
\* downloads nothing.
C11_FoundIsLoaded ==
    /\ (map_pc = "start" /\ map_pc' /= "start" /\ exists(graph_file))
          => (map_pc' = "loaded" /\ map_G' = Content(graph_file) /\ downloads' = downloads)
    /\ (ext_pc = "start" /\ ext_pc' /= "start" /\ exists(graph_file))
          => (ext_pc' = "loaded" /\ ext_G' = Content(graph_file) /\ downloads' = downloads)

\* A run that has downloaded does nothing with the graph before it has
\* written it to the graph file.
C11_SavedBeforeUse ==
    /\ (map_pc = "downloaded" /\ map_pc' /= "downloaded")
          => (map_pc' = "saved" /\ graph_file' = File(map_G) /\ image_file' = image_file)
    /\ (ext_pc = "downloaded" /\ ext_pc' /= "downloaded")
          => (/\ ext_pc' = "saved" /\ graph_file' = File(ext_G)
              /\ fs' = fs /\ named_segments_file' = named_segments_file)
    /\ (map_pc' = "done" /\ map_pc /= "done" /\ ~graph_deleted /\ ~overlapped)
          => graph_file = File(map_G)
    /\ (ext_pc' = "done" /\ ext_pc /= "done" /\ ~graph_deleted /\ ~overlapped)
          => graph_file = File(ext_G)

\* C11: network acquisition caches the road graph on disk: over runs of
\* get_map.py and extract_segments.py that follow one another, with the graph
\* file never deleted, the graph is downloaded at most once; a run that finds
\* the file loads it without downloading; a run that downloads saves the file
\* before it uses the graph.
C11_GraphDownloadedOnce ==
    /\ []C11_AtMostOneDownload
    /\ [][C11_FoundIsLoaded /\ C11_SavedBeforeUse]_vars

\* Two runs, one after the other: the first downloaded and saved, the second
\* loaded what the first saved.
C11_Witness ==
    /\ ~graph_deleted /\ ~overlapped
    /\ acq_runs = 2 /\ downloads = 1
    /\ map_pc = "done" /\ ext_pc = "done"
    /\ graph_file = File(osm) /\ map_G = osm /\ ext_G = osm
    /\ <<"get_map.py", "Downloading road network">> \in console
    /\ <<"extract_segments.py", "Loading graph">> \in console
    /\ <<"extract_segments.py", "Downloading road network">> \notin console

\* ---------------------------------------------------------------------- C12
\* A report run that got both files, converted every geometry, and found no
\* segment with traffic data for the target hour has come to its end.
C12_EmptyMergeRunEnded ==
    /\ <<"report", "Warning: After merging, no road segments have traffic data">> \in console
    /\ merged_gdf = <<>>
    /\ rep_pc \in {"done", "crashed", "halted"}

\* C12: the static report script always produces the map document when both
\* input files exist and carry the required columns; when the merge of the
\* segments with the samples of 08:00 is empty, the run still reaches its end
\* and saves a map without coloured roads.
C12_EmptyMergeStillSavesMap ==
    C12_EmptyMergeRunEnded => (rep_pc = "done" /\ fs.html = File(<<>>))

\* ---------------------------------------------------------------------- C13
\* The session state is empty or holds the four fields of one prediction.
C13_FieldsTogether ==
    session_state /= <<>> =>
        DOMAIN session_state[1]
            = {"predicted_speed", "selected_segment_id", "selected_display_name", "hour"}

\* The stored segment id is in the loaded segment table and in the classes of
\* the loaded encoder.
C13_StoredIdKnown ==
    session_state /= <<>> =>
        /\ \E i \in 1..Len(cache_data[1].result) :
               cache_data[1].result[i].segment_id = session_state[1].selected_segment_id
        /\ InClasses(session_state[1].selected_segment_id,
                     Content(cache_resource[1].result.segment_encoder))

\* The page of a query that was answered shows that query's segment, hour,
\* speed and colour on the map (when it shows a map at all); the page of a
\* query that was rejected or failed shows no map.
C13_MapIsOfThisQuery ==
    ui.query /= <<>> =>
        IF ui.predict_calls = 1
        THEN ui.map /= <<>> =>
                /\ ui.map[1].segment_id = ui.query[1].segment_id
                /\ ui.map[1].hour = ui.query[1].hour
                /\ ui.map[1].speed = ui.metric[1].speed
                /\ ui.map[1].color = get_color_app(ui.metric[1].speed)
        ELSE ui.map = <<>>

\* C13: after any sequence of queries the highlighted map shows the result of
\* the most recent query: the four session-state fields are written together,
\* the stored segment id is in the loaded segment table and in the encoder's
\* classes, and a rejected or failed query does not leave the map showing an
\* earlier query's result.
C13_MapShowsMostRecentQuery ==
    /\ C13_FieldsTogether
    /\ C13_StoredIdKnown
    /\ C13_MapIsOfThisQuery
====
